---------------------------- MODULE Spec2Model ----------------------------
(***************************************************************************)
(* A model of the cloudlog package (stryd/cloudlog): the plain Logger, the  *)
(* request-scoped ScopedLogger, getTraceID and the process-wide hostname    *)
(* label of WithHostname.                                                   *)
(*                                                                          *)
(* src/scoped_logger.go holds two definitions of ScopedLogger: the first    *)
(* (lines 17-181) tags every entry with l.traceID; the second (lines        *)
(* 243-414) has no traceID field, attaches the request to every child       *)
(* entry and has a local echo.  The field l.def says which of the two an    *)
(* aggregator was built from.                                               *)
(*                                                                          *)
(* A request is modelled by the value of its X-Cloud-Trace-Context header   *)
(* ("" when the header is absent); a *logging.Logger by the sequence of     *)
(* calls (Log, Flush) it has received.                                      *)
(***************************************************************************)
EXTENDS Naturals, Sequences, FiniteSets

(* ------------------------------ bounds -------------------------------- *)

\* calls made on one aggregator after its construction
MaxCalls == 3

\* aggregators created in one process
MaxLoggers == 3

\* tasks calling WithHostname concurrently
NumTasks == 2

\* WithHostname calls per task
MaxHostCalls == 2

\* output calls made concurrently on one aggregator, over all tasks
MaxEmits == 2

\* formatted calls made with one format and argument list
MaxFmtCalls == 2

\* tokens in a format string, and arguments in an argument list
MaxFmtLen == 2
MaxArgs == 2

\* the clock readings time.Now() can return
Times == {0, 1}

\* the payloads of the emit calls
Payloads == {"p", "q"}

\* the values of the request's X-Cloud-Trace-Context header ("" = absent)
Headers == {"", "abc123"}

(* ------------------- logging.Severity (external) ---------------------- *)

Default == 0
SevDebug == 100
SevInfo == 200
SevWarning == 400
SevError == 500
SevCritical == 600
SevAlert == 700
SevEmergency == 800

\* logging.Severity.String()
SeverityString(s) ==
  CASE s = Default -> "Default"
    [] s = SevDebug -> "Debug"
    [] s = SevInfo -> "Info"
    [] s = SevWarning -> "Warning"
    [] s = SevError -> "Error"
    [] s = SevCritical -> "Critical"
    [] s = SevAlert -> "Alert"
    [] s = SevEmergency -> "Emergency"

(* --------------------------- logging.Entry ---------------------------- *)

\* Go zero values of the fields an entry literal leaves out
NoTrace == ""
NoPayload == ""
NoHTTPRequest == [set |-> FALSE, Request |-> "", Latency |-> 0]

HTTPRequest(r, latency) == [set |-> TRUE, Request |-> r, Latency |-> latency]

Entry(payload, severity, trace, http) ==
  [Payload |-> payload, Severity |-> severity, Trace |-> trace, HTTPRequest |-> http]

\* the calls a *logging.Logger receives
SinkLog(e) == [op |-> "Log", e |-> e]
SinkFlush == [op |-> "Flush", e |-> Entry(NoPayload, Default, NoTrace, NoHTTPRequest)]

IsLog(c) == c.op = "Log"

IsFlush(c) == c.op = "Flush"

VARIABLES
  l,             \* the ScopedLogger (def = 0 before NewScopedLogger)
  entrySink,     \* calls received by l.entryLogger
  parentSink,    \* calls received by l.parentLogger
  flushErr,      \* the error value the last parentLogger.Flush() returned
  ret,           \* what the last call returned to its caller
  now,           \* the last reading of the clock
  stderr,        \* lines written by log.Printf (local echo)
  calls,         \* the calls made on the aggregator, in order
  uuidCount,     \* number of identifiers uuid.New() has generated
  detectedHost,  \* the process-wide hostname label and its sync.Once flag
  created,       \* the aggregators NewScopedLogger has returned, in order
  hpc,           \* WithHostname: where each task stands
  hpath,         \* WithHostname: the path of each task's latest once.Do
  hret,          \* WithHostname: the "hostname" values each task got back
  onceM,         \* detectedHost.once.m: the task holding it, 0 when free
  hval,          \* WithHostname: the lookup result each task holds in f
  hruns,         \* how many runs of the lookup body have started
  hcompleted,    \* how many runs of the lookup body have returned
  hfailed,       \* whether a run of the lookup body got an error
  rpc,           \* concurrent output: where each task stands
  rloc,          \* concurrent output: each task's payload, severity, slice read
  rcount,        \* concurrent output: calls each task has completed
  overlapped,    \* whether two output calls have ever been in progress at once
  fmtIn,         \* the format string of the formatted calls, as tokens
  argsIn,        \* the argument list v of the formatted calls
  plainSink,     \* calls received by Logger.logger
  fcalls         \* the formatted calls made, in order

aggVars == <<l, entrySink, parentSink, flushErr, ret, now, stderr, calls>>

procVars == <<uuidCount, detectedHost>>

traceVars == <<created>>

hostVars == <<hpc, hpath, hret, onceM, hval, hruns, hcompleted, hfailed>>

raceVars == <<rpc, rloc, rcount, overlapped>>

fmtVars == <<fmtIn, argsIn, plainSink, fcalls>>

vars == <<aggVars, procVars, traceVars, hostVars, raceVars, fmtVars>>

(* ------------------------- hostname lookup ---------------------------- *)

\* The outcomes of the environment calls inside the once.Do body:
\* metadata.OnGCE(), metadata.InstanceName(), os.Hostname().
LookupOutcomes ==
  { [onGCE |-> TRUE, err |-> FALSE, name |-> "instance-1"],
    [onGCE |-> TRUE, err |-> TRUE, name |-> ""],
    [onGCE |-> FALSE, err |-> FALSE, name |-> "host-1"],
    [onGCE |-> FALSE, err |-> TRUE, name |-> ""] }

\* the function passed to detectedHost.once.Do: the hostname it leaves
lookupBody(hostname, o) == IF o.err THEN hostname ELSE o.name

\* detectedHost.once.Do(f) called by one task with nobody racing
onceDo(dh, o) ==
  IF dh.done THEN dh ELSE [hostname |-> lookupBody(dh.hostname, o), done |-> TRUE]

(* --------------------------- ScopedLogger ----------------------------- *)

NoLogger ==
  [def |-> 0, request |-> "", logSeverities |-> <<>>, traceID |-> NoTrace,
   startTime |-> 0, endTime |-> 0, local |-> FALSE, labels |-> ""]

\* uuid.New().String(): the k-th identifier generated in the process; the
\* library's identifiers are taken to be pairwise distinct and never empty
UUID(k) ==
  CASE k = 1 -> "uuid-1"
    [] k = 2 -> "uuid-2"
    [] k = 3 -> "uuid-3"
    [] k = 4 -> "uuid-4"
    [] k = 5 -> "uuid-5"
    [] k = 6 -> "uuid-6"

\* getTraceID without the fallback to a generated identifier
getTraceIDNoFallback(r, u) == r

getTraceID(r, u) == IF r # "" THEN r ELSE u

\* NewScopedLogger, first definition; t is the reading of time.Now(), u the
\* identifier uuid.New() would return, host the label WithHostname returns
NewScopedLogger1(r, t, u, host) ==
  [def |-> 1, request |-> r, logSeverities |-> <<>>, traceID |-> getTraceID(r, u),
   startTime |-> t, endTime |-> t, local |-> FALSE, labels |-> host]

\* NewScopedLogger, second definition: no trace id is derived
NewScopedLogger2(r, t, host) ==
  [def |-> 2, request |-> r, logSeverities |-> <<>>, traceID |-> NoTrace,
   startTime |-> t, endTime |-> t, local |-> FALSE, labels |-> host]

\* the greatest element of a set of severities, Default for the empty set
SetMaxOf(S) == IF S = {} THEN Default ELSE CHOOSE m \in S : \A x \in S : x <= m

RECURSIVE maxFrom(_, _)
maxFrom(m, sevs) ==
  IF sevs = <<>> THEN m
  ELSE maxFrom(IF Head(sevs) > m THEN Head(sevs) ELSE m, Tail(sevs))

\* a fold that keeps the latest severity instead of the greatest
maxSeverityLast(ll) ==
  IF ll.logSeverities = <<>> THEN Default ELSE ll.logSeverities[Len(ll.logSeverities)]

maxSeverity(ll) == maxFrom(Default, ll.logSeverities)

\* the entry output builds
outputEntry(ll, payload, severity) ==
  IF ll.def = 1
  THEN Entry(payload, severity, ll.traceID, NoHTTPRequest)
  ELSE Entry(payload, severity, NoTrace, HTTPRequest(ll.request, 0))

\* output storing the severity instead of appending it
outputSeveritiesOverwrite(ll, severity) == <<severity>>

\* l.logSeverities after output
outputSeverities(ll, severity) == Append(ll.logSeverities, severity)

\* the line log.Printf("%v: %v", severity.String(), payload) writes
localLine(payload, severity) == SeverityString(severity) \o ": " \o payload

\* the entry Finish builds, l.endTime already set
FinishEntry(ll) ==
  Entry(NoPayload, maxSeverity(ll),
        IF ll.def = 1 THEN ll.traceID ELSE NoTrace,
        HTTPRequest(ll.request, ll.endTime - ll.startTime))

\* Finish flushing before it submits the summary
FinishCallsFlushFirst(ll) == <<SinkFlush, SinkLog(FinishEntry(ll))>>

\* the calls Finish makes on l.parentLogger
FinishCalls(ll) == <<SinkLog(FinishEntry(ll)), SinkFlush>>

partialFinishEntry(ll) ==
  Entry(NoPayload, maxSeverity(ll),
        IF ll.def = 1 THEN ll.traceID ELSE NoTrace,
        HTTPRequest(ll.request, 0))

\* partialFinish flushing like Finish
partialFinishCallsFlushing(ll) == <<SinkLog(partialFinishEntry(ll)), SinkFlush>>

partialFinishCalls(ll) == <<SinkLog(partialFinishEntry(ll))>>

(* ------------------------------ actions ------------------------------- *)

Call(op, payload) == [op |-> op, payload |-> payload]

\* the tasks that call WithHostname concurrently
Tasks == 1..NumTasks

\* the two tasks that call output on one aggregator concurrently
Emitters == {1, 2}

AggInit ==
  /\ l = NoLogger
  /\ entrySink = <<>>
  /\ parentSink = <<>>
  /\ flushErr = "nil"
  /\ ret = "void"
  /\ now = 0
  /\ stderr = <<>>
  /\ calls = <<>>

ProcInit ==
  /\ uuidCount = 0
  /\ detectedHost = [hostname |-> "", done |-> FALSE]

TraceInit == created = <<>>

HostInit ==
  /\ hpc = [p \in Tasks |-> "idle"]
  /\ hpath = [p \in Tasks |-> "none"]
  /\ hret = [p \in Tasks |-> <<>>]
  /\ onceM = 0
  /\ hval = [p \in Tasks |-> [onGCE |-> FALSE, err |-> FALSE, name |-> ""]]
  /\ hruns = 0
  /\ hcompleted = 0
  /\ hfailed = FALSE

RaceInit ==
  /\ rpc = [p \in Emitters |-> "idle"]
  /\ rloc = [p \in Emitters |-> [payload |-> NoPayload, severity |-> Default, read |-> <<>>]]
  /\ rcount = [p \in Emitters |-> 0]
  /\ overlapped = FALSE

FmtInit ==
  /\ fmtIn = <<>>
  /\ argsIn = <<>>
  /\ plainSink = <<>>
  /\ fcalls = <<>>

Init == AggInit /\ ProcInit /\ TraceInit /\ HostInit /\ RaceInit /\ FmtInit

NewScopedLogger ==
  /\ l.def = 0
  /\ \E def \in {1, 2}, r \in Headers, t \in Times, o \in LookupOutcomes :
       LET dh == onceDo(onceDo(detectedHost, o), o)
           fresh == def = 1 /\ r = ""
       IN /\ t >= now
          /\ now' = t
          /\ detectedHost' = dh
          /\ uuidCount' = IF fresh THEN uuidCount + 1 ELSE uuidCount
          /\ l' = IF def = 1
                  THEN NewScopedLogger1(r, t, UUID(uuidCount + 1), dh.hostname)
                  ELSE NewScopedLogger2(r, t, dh.hostname)
  /\ UNCHANGED <<entrySink, parentSink, flushErr, ret, stderr, calls>>
  /\ UNCHANGED <<traceVars, hostVars, raceVars, fmtVars>>

EnableLocal ==
  /\ l.def = 2
  /\ Len(calls) < MaxCalls
  /\ \E flag \in BOOLEAN :
       /\ l' = [l EXCEPT !.local = flag]
       /\ calls' = Append(calls, Call(IF flag THEN "EnableLocal(true)" ELSE "EnableLocal(false)", NoPayload))
  /\ ret' = "void"
  /\ UNCHANGED <<entrySink, parentSink, flushErr, now, stderr, procVars, traceVars, hostVars, raceVars, fmtVars>>

\* l.output(payload, severity), reached through the wrapper named op
output(op, severity) ==
  /\ l.def # 0
  /\ Len(calls) < MaxCalls
  /\ \E payload \in Payloads :
       /\ entrySink' = Append(entrySink, SinkLog(outputEntry(l, payload, severity)))
       /\ l' = [l EXCEPT !.logSeverities = outputSeverities(l, severity)]
       /\ stderr' = IF l.local THEN Append(stderr, localLine(payload, severity)) ELSE stderr
       /\ calls' = Append(calls, Call(op, payload))
  /\ ret' = "void"
  /\ UNCHANGED <<parentSink, flushErr, now, procVars, traceVars, hostVars, raceVars, fmtVars>>

Debug == output("Debug", SevDebug)

Info == output("Info", SevInfo)

Warning == output("Warning", SevWarning)

Error == output("Error", SevError)

Critical == output("Critical", SevCritical)

Alert == output("Alert", SevAlert)

Emergency == output("Emergency", SevEmergency)

Finish ==
  /\ l.def # 0
  /\ Len(calls) < MaxCalls
  /\ \E t \in Times, err \in {"nil", "err"} :
       /\ t >= now
       /\ now' = t
       /\ l' = [l EXCEPT !.endTime = t]
       /\ parentSink' = parentSink \o FinishCalls(l')
       /\ flushErr' = err
  /\ ret' = "void"
  /\ calls' = Append(calls, Call("Finish", NoPayload))
  /\ UNCHANGED <<entrySink, stderr, procVars, traceVars, hostVars, raceVars, fmtVars>>

partialFinish ==
  /\ l.def # 0
  /\ Len(calls) < MaxCalls
  /\ parentSink' = parentSink \o partialFinishCalls(l)
  /\ ret' = "void"
  /\ calls' = Append(calls, Call("partialFinish", NoPayload))
  /\ UNCHANGED <<l, entrySink, flushErr, now, stderr, procVars, traceVars, hostVars, raceVars, fmtVars>>

Next ==
  \/ NewScopedLogger
  \/ EnableLocal
  \/ Debug
  \/ Info
  \/ Warning
  \/ Error
  \/ Critical
  \/ Alert
  \/ Emergency
  \/ Finish
  \/ partialFinish

Spec == Init /\ [][Next]_vars

(* ------------- one aggregator per request, in one process ------------- *)

\* NewScopedLogger (first definition) called for one more inbound request
NewScopedLoggerPerRequest ==
  /\ Len(created) < MaxLoggers
  /\ \E r \in Headers, t \in Times, o \in LookupOutcomes :
       LET dh == onceDo(onceDo(detectedHost, o), o)
       IN /\ t >= now
          /\ now' = t
          /\ detectedHost' = dh
          /\ uuidCount' = IF r = "" THEN uuidCount + 1 ELSE uuidCount
          /\ created' = Append(created, NewScopedLogger1(r, t, UUID(uuidCount + 1), dh.hostname))
  /\ UNCHANGED <<l, entrySink, parentSink, flushErr, ret, stderr, calls>>
  /\ UNCHANGED <<hostVars, raceVars, fmtVars>>

NextTrace == NewScopedLoggerPerRequest

SpecTrace == Init /\ [][NextTrace]_vars

(* ------------------------------- C4 ----------------------------------- *)

hostOthers == <<aggVars, uuidCount, traceVars, raceVars, fmtVars>>

\* WithHostname(labels) is called: labels is made if nil
WithHostnameCall(p) ==
  /\ hpc[p] = "idle"
  /\ Len(hret[p]) < MaxHostCalls
  /\ hpc' = [hpc EXCEPT ![p] = "load"]
  /\ UNCHANGED <<hpath, hret, onceM, hval, hruns, hcompleted, hfailed, detectedHost, hostOthers>>

\* once.Do: the fast path reads done
onceDoLoad(p) ==
  /\ hpc[p] = "load"
  /\ hpc' = [hpc EXCEPT ![p] = IF detectedHost.done THEN "write" ELSE "lock"]
  /\ hpath' = [hpath EXCEPT ![p] = IF detectedHost.done THEN "fast" ELSE "slow"]
  /\ UNCHANGED <<hret, onceM, hval, hruns, hcompleted, hfailed, detectedHost, hostOthers>>

\* doSlow: o.m.Lock()
doSlowLock(p) ==
  /\ hpc[p] = "lock"
  /\ onceM = 0
  /\ onceM' = p
  /\ hpc' = [hpc EXCEPT ![p] = "check"]
  /\ UNCHANGED <<hpath, hret, hval, hruns, hcompleted, hfailed, detectedHost, hostOthers>>

\* doSlow without the second look at o.done under the lock
doSlowCheckTargetNoRecheck(done) == "body"

\* doSlow: where the task goes after if o.done == 0, read under the lock
doSlowCheckTarget(done) == IF done THEN "unlock" ELSE "body"

doSlowCheck(p) ==
  /\ hpc[p] = "check"
  /\ hpc' = [hpc EXCEPT ![p] = doSlowCheckTarget(detectedHost.done)]
  /\ UNCHANGED <<hpath, hret, onceM, hval, hruns, hcompleted, hfailed, detectedHost, hostOthers>>

\* f: metadata.OnGCE() and metadata.InstanceName() or os.Hostname()
lookupCall(p) ==
  /\ hpc[p] = "body"
  /\ \E o \in LookupOutcomes : hval' = [hval EXCEPT ![p] = o]
  /\ hruns' = hruns + 1
  /\ hpc' = [hpc EXCEPT ![p] = "assign"]
  /\ UNCHANGED <<hpath, hret, onceM, hcompleted, hfailed, detectedHost, hostOthers>>

\* f: if err == nil { detectedHost.hostname = ... }, and f returns
lookupAssign(p) ==
  /\ hpc[p] = "assign"
  /\ detectedHost' = [detectedHost EXCEPT !.hostname = lookupBody(@, hval[p])]
  /\ hfailed' = (hfailed \/ hval[p].err)
  /\ hcompleted' = hcompleted + 1
  /\ hpc' = [hpc EXCEPT ![p] = "store"]
  /\ UNCHANGED <<hpath, hret, onceM, hval, hruns, hostOthers>>

\* doSlow: the deferred atomic.StoreUint32(&o.done, 1)
doSlowStore(p) ==
  /\ hpc[p] = "store"
  /\ detectedHost' = [detectedHost EXCEPT !.done = TRUE]
  /\ hpc' = [hpc EXCEPT ![p] = "unlock"]
  /\ UNCHANGED <<hpath, hret, onceM, hval, hruns, hcompleted, hfailed, hostOthers>>

\* doSlow: the deferred o.m.Unlock()
doSlowUnlock(p) ==
  /\ hpc[p] = "unlock"
  /\ onceM' = 0
  /\ hpc' = [hpc EXCEPT ![p] = "write"]
  /\ UNCHANGED <<hpath, hret, hval, hruns, hcompleted, hfailed, detectedHost, hostOthers>>

\* labels["hostname"] = detectedHost.hostname; return labels
WithHostnameReturn(p) ==
  /\ hpc[p] = "write"
  /\ hret' = [hret EXCEPT ![p] = Append(@, detectedHost.hostname)]
  /\ hpc' = [hpc EXCEPT ![p] = "idle"]
  /\ UNCHANGED <<hpath, onceM, hval, hruns, hcompleted, hfailed, detectedHost, hostOthers>>

NextHost ==
  \E p \in Tasks :
    \/ WithHostnameCall(p)
    \/ onceDoLoad(p)
    \/ doSlowLock(p)
    \/ doSlowCheck(p)
    \/ lookupCall(p)
    \/ lookupAssign(p)
    \/ doSlowStore(p)
    \/ doSlowUnlock(p)
    \/ WithHostnameReturn(p)

SpecHost == Init /\ [][NextHost]_vars

(* ------------------------------- C8 ----------------------------------- *)

\* the "hostname" values WithHostname has returned, over all tasks
Returned == UNION {{hret[p][i] : i \in 1..Len(hret[p])} : p \in Tasks}

\* C8: the lookup body runs at most once, however many tasks call
\* WithHostname and however they interleave; a task writes the label into
\* its map only after that one run has returned; all calls return the same
\* "hostname" value; and when the lookup got an error that value is "".
C8_HostnameComputedOnce ==
  /\ hruns <= 1
  /\ \A p \in Tasks : hpc[p] = "write" => (hruns = 1 /\ hcompleted = 1)
  /\ Returned # {} => (hruns = 1 /\ hcompleted = 1)
  /\ Cardinality(Returned) <= 1
  /\ hfailed => Returned \subseteq {""}

\* two tasks raced on first access (both took the slow path) and both got
\* the one name that was looked up
C8_Witness ==
  /\ hpath[1] = "slow"
  /\ hpath[2] = "slow"
  /\ hret[1] = <<"host-1">>
  /\ hret[2] = <<"host-1">>
  /\ hruns = 1

(* ------------ output called by concurrent tasks, no lock -------------- *)
(* l.logSeverities = append(l.logSeverities, severity) reads the slice and  *)
(* then writes it back; nothing orders the two steps of one task against    *)
(* those of another.  entryLogger.Log is safe for concurrent use.  The      *)
(* interleavings of the read and the write are the outcomes modelled here.  *)

raceOthers == <<parentSink, flushErr, ret, now, stderr, calls, procVars, traceVars, hostVars, fmtVars>>

\* an aggregator as NewScopedLogger returns it, either definition
RaceStart ==
  /\ ProcInit /\ TraceInit /\ HostInit /\ RaceInit /\ FmtInit
  /\ l \in {NewScopedLogger1(r, 0, UUID(1), "") : r \in Headers}
           \cup {NewScopedLogger2(r, 0, "") : r \in Headers}
  /\ entrySink = <<>>
  /\ parentSink = <<>>
  /\ flushErr = "nil"
  /\ ret = "void"
  /\ now = 0
  /\ stderr = <<>>
  /\ calls = <<>>

\* every output call begun so far, finished or not
RECURSIVE completedBy(_)
completedBy(S) ==
  IF S = {} THEN 0
  ELSE LET p == CHOOSE q \in S : TRUE IN rcount[p] + completedBy(S \ {p})

outputsBegun == Cardinality({q \in Emitters : rpc[q] # "idle"}) + completedBy(Emitters)

\* a task calls one of the seven wrappers, which calls output
outputCall(p) ==
  /\ rpc[p] = "idle"
  /\ outputsBegun < MaxEmits
  /\ \E op \in {"Debug", "Info", "Warning", "Error", "Critical", "Alert", "Emergency"},
        payload \in Payloads :
       rloc' = [rloc EXCEPT ![p] = [payload |-> payload,
                                    severity |-> CASE op = "Debug" -> SevDebug
                                                   [] op = "Info" -> SevInfo
                                                   [] op = "Warning" -> SevWarning
                                                   [] op = "Error" -> SevError
                                                   [] op = "Critical" -> SevCritical
                                                   [] op = "Alert" -> SevAlert
                                                   [] op = "Emergency" -> SevEmergency,
                                    read |-> <<>>]]
  /\ overlapped' = (overlapped \/ \E q \in Emitters : q # p /\ rpc[q] # "idle")
  /\ rpc' = [rpc EXCEPT ![p] = "log"]
  /\ UNCHANGED <<l, entrySink, rcount, raceOthers>>

\* l.entryLogger.Log(e)
outputLog(p) ==
  /\ rpc[p] = "log"
  /\ entrySink' = Append(entrySink, SinkLog(outputEntry(l, rloc[p].payload, rloc[p].severity)))
  /\ rpc' = [rpc EXCEPT ![p] = "read"]
  /\ UNCHANGED <<l, rloc, rcount, overlapped, raceOthers>>

\* append(l.logSeverities, severity): the slice is read
outputRead(p) ==
  /\ rpc[p] = "read"
  /\ rloc' = [rloc EXCEPT ![p].read = l.logSeverities]
  /\ rpc' = [rpc EXCEPT ![p] = "write"]
  /\ UNCHANGED <<l, entrySink, rcount, overlapped, raceOthers>>

\* l.logSeverities = ...: the slice read, with the severity appended, is stored
outputWrite(p) ==
  /\ rpc[p] = "write"
  /\ l' = [l EXCEPT !.logSeverities =
             outputSeverities([l EXCEPT !.logSeverities = rloc[p].read], rloc[p].severity)]
  /\ rcount' = [rcount EXCEPT ![p] = @ + 1]
  /\ rloc' = [rloc EXCEPT ![p] = [payload |-> NoPayload, severity |-> Default, read |-> <<>>]]
  /\ rpc' = [rpc EXCEPT ![p] = "idle"]
  /\ UNCHANGED <<entrySink, overlapped, raceOthers>>

NextRace ==
  \E p \in Emitters :
    \/ outputCall(p)
    \/ outputLog(p)
    \/ outputRead(p)
    \/ outputWrite(p)

SpecRace == RaceStart /\ [][NextRace]_vars

(* ------------------------------- C10 ---------------------------------- *)

\* no output call is in progress
NoOutputInProgress == \A p \in Emitters : rpc[p] = "idle"

\* the severities of the entries submitted to the entry sink, in order
SubmittedSeverities == [k \in 1..Len(entrySink) |-> entrySink[k].e.Severity]

\* one recorded severity per submitted entry, in submission order, so that
\* maxSeverity is the maximum over all that was emitted
RecordedMatchesSubmitted ==
  /\ l.logSeverities = SubmittedSeverities
  /\ maxSeverity(l) = SetMaxOf({SubmittedSeverities[k] : k \in 1..Len(entrySink)})

\* C10 as stated: with no output call in progress the recorded sequence has
\* one element per submitted entry, in order, also after two tasks have
\* called output concurrently with no lock.
C10_NoSeverityLost == NoOutputInProgress => RecordedMatchesSubmitted

\* C10 amended: the same, provided no two output calls have overlapped (one
\* task, or several tasks serialized by the caller).
C10_NoSeverityLostWhenSerialized ==
  (NoOutputInProgress /\ ~overlapped) => RecordedMatchesSubmitted

\* two tasks have each completed an output call, one after the other
C10_Witness ==
  /\ NoOutputInProgress
  /\ ~overlapped
  /\ rcount[1] >= 1
  /\ rcount[2] >= 1
  /\ Len(l.logSeverities) >= 2
  /\ l.logSeverities[1] # l.logSeverities[2]

(* ----------------------- the formatted variants ----------------------- *)
(* fmt.Sprintf on the formats and operands used here: a format is a         *)
(* sequence of tokens, each the verb "%v" or literal text; an operand is a  *)
(* string or a []interface{} of strings.                                    *)

FormatTokens == {"n=", "%v"}

ArgValues == {"a", "b"}

Formats == UNION {[1..n -> FormatTokens] : n \in 0..MaxFmtLen}

ArgLists == UNION {[1..n -> ArgValues] : n \in 0..MaxArgs}

Scalar(x) == [slice |-> FALSE, elems |-> <<x>>]

Slice(v) == [slice |-> TRUE, elems |-> v]

RECURSIVE joinWith(_, _)
joinWith(strs, sep) ==
  IF strs = <<>> THEN ""
  ELSE IF Len(strs) = 1 THEN strs[1]
  ELSE strs[1] \o sep \o joinWith(Tail(strs), sep)

\* an operand under %v: a string as it is, a slice as [e1 e2 ...]
formatV(val) == IF val.slice THEN "[" \o joinWith(val.elems, " ") \o "]" ELSE val.elems[1]

\* reflect.TypeOf(arg).String()
typeString(val) == IF val.slice THEN "[]interface {}" ELSE "string"

\* what Sprintf appends for operands no verb consumed
extraString(ops) ==
  "%!(EXTRA "
    \o joinWith([i \in 1..Len(ops) |-> typeString(ops[i]) \o "=" \o formatV(ops[i])], ", ")
    \o ")"

RECURSIVE Sprintf(_, _)
Sprintf(format, ops) ==
  IF format = <<>> THEN (IF ops = <<>> THEN "" ELSE extraString(ops))
  ELSE IF Head(format) = "%v"
       THEN IF ops = <<>>
            THEN "%!v(MISSING)" \o Sprintf(Tail(format), ops)
            ELSE formatV(Head(ops)) \o Sprintf(Tail(format), Tail(ops))
       ELSE Head(format) \o Sprintf(Tail(format), ops)

\* the operands of a call that spreads v: fmt.Sprintf(format, v...)
Spread(v) == [i \in 1..Len(v) |-> Scalar(v[i])]

\* Logger.Debugf .. Emergencyf: fmt.Sprintf(format, v)
LoggerSprintf(format, v) == Sprintf(format, <<Slice(v)>>)

\* ScopedLogger.Debugf .. Emergencyf: fmt.Sprintf(format, v...)
ScopedLoggerSprintf(format, v) == Sprintf(format, Spread(v))

\* Logger.output
LoggerOutputEntry(payload, severity) == Entry(payload, severity, NoTrace, NoHTTPRequest)

fmtOthers == <<parentSink, flushErr, now, calls, procVars, traceVars, hostVars, raceVars>>

\* a format, an argument list, and an aggregator as NewScopedLogger returns it
FmtStart ==
  /\ ProcInit /\ TraceInit /\ HostInit /\ RaceInit
  /\ fmtIn \in Formats
  /\ argsIn \in ArgLists
  /\ plainSink = <<>>
  /\ fcalls = <<>>
  /\ l \in {NewScopedLogger1("abc123", 0, UUID(1), ""), NewScopedLogger2("abc123", 0, "")}
  /\ entrySink = <<>>
  /\ parentSink = <<>>
  /\ flushErr = "nil"
  /\ ret = "void"
  /\ now = 0
  /\ stderr = <<>>
  /\ calls = <<>>

FCall(recv, op) == [recv |-> recv, op |-> op]

\* a formatted variant of the plain Logger, and the plain call it makes
Loggerf(op, severity) ==
  /\ Len(fcalls) < MaxFmtCalls
  /\ plainSink' = Append(plainSink, SinkLog(LoggerOutputEntry(LoggerSprintf(fmtIn, argsIn), severity)))
  /\ fcalls' = Append(fcalls, FCall("Logger", op))
  /\ ret' = "void"
  /\ UNCHANGED <<l, entrySink, stderr, fmtIn, argsIn, fmtOthers>>

Logger_Debugf == Loggerf("Debugf", SevDebug)

Logger_Infof == Loggerf("Infof", SevInfo)

Logger_Warningf == Loggerf("Warningf", SevWarning)

Logger_Errorf == Loggerf("Errorf", SevError)

Logger_Criticalf == Loggerf("Criticalf", SevCritical)

Logger_Alertf == Loggerf("Alertf", SevAlert)

Logger_Emergencyf == Loggerf("Emergencyf", SevEmergency)

\* a formatted variant of the ScopedLogger, and the output call it makes
ScopedLoggerf(op, severity) ==
  /\ Len(fcalls) < MaxFmtCalls
  /\ LET payload == ScopedLoggerSprintf(fmtIn, argsIn)
     IN /\ entrySink' = Append(entrySink, SinkLog(outputEntry(l, payload, severity)))
        /\ l' = [l EXCEPT !.logSeverities = outputSeverities(l, severity)]
        /\ stderr' = IF l.local THEN Append(stderr, localLine(payload, severity)) ELSE stderr
  /\ fcalls' = Append(fcalls, FCall("ScopedLogger", op))
  /\ ret' = "void"
  /\ UNCHANGED <<plainSink, fmtIn, argsIn, fmtOthers>>

ScopedLogger_Debugf == ScopedLoggerf("Debugf", SevDebug)

ScopedLogger_Infof == ScopedLoggerf("Infof", SevInfo)

ScopedLogger_Warningf == ScopedLoggerf("Warningf", SevWarning)

ScopedLogger_Errorf == ScopedLoggerf("Errorf", SevError)

ScopedLogger_Criticalf == ScopedLoggerf("Criticalf", SevCritical)

ScopedLogger_Alertf == ScopedLoggerf("Alertf", SevAlert)

ScopedLogger_Emergencyf == ScopedLoggerf("Emergencyf", SevEmergency)

NextFmt ==
  \/ Logger_Debugf
  \/ Logger_Infof
  \/ Logger_Warningf
  \/ Logger_Errorf
  \/ Logger_Criticalf
  \/ Logger_Alertf
  \/ Logger_Emergencyf
  \/ ScopedLogger_Debugf
  \/ ScopedLogger_Infof
  \/ ScopedLogger_Warningf
  \/ ScopedLogger_Errorf
  \/ ScopedLogger_Criticalf
  \/ ScopedLogger_Alertf
  \/ ScopedLogger_Emergencyf

SpecFmt == FmtStart /\ [][NextFmt]_vars

(* ------------------------------- C9 ----------------------------------- *)

\* the severity of the formatted variant named op
SeverityOfF(op) ==
  CASE op = "Debugf" -> SevDebug
    [] op = "Infof" -> SevInfo
    [] op = "Warningf" -> SevWarning
    [] op = "Errorf" -> SevError
    [] op = "Criticalf" -> SevCritical
    [] op = "Alertf" -> SevAlert
    [] op = "Emergencyf" -> SevEmergency

IsLoggerCall(c) == c.recv = "Logger"

IsScopedCall(c) == c.recv = "ScopedLogger"

\* C9: every formatted call of the plain Logger submits exactly one entry, of
\* the severity of its level, whose payload is the format interpolated with
\* the individual arguments: the payload the ScopedLogger's formatted variant
\* submits for the same format and arguments.
C9_LoggerfInterpolatesArgs ==
  LET plain == SelectSeq(fcalls, IsLoggerCall)
      scoped == SelectSeq(fcalls, IsScopedCall)
  IN /\ Len(plainSink) = Len(plain)
     /\ \A k \in 1..Len(plain) :
          /\ IsLog(plainSink[k])
          /\ plainSink[k].e.Severity = SeverityOfF(plain[k].op)
          /\ plainSink[k].e.Payload = Sprintf(fmtIn, Spread(argsIn))
          /\ \A j \in 1..Len(scoped) :
               j <= Len(entrySink) => plainSink[k].e.Payload = entrySink[j].e.Payload

(* ------------------- reading the history of calls --------------------- *)

EmitOps == {"Debug", "Info", "Warning", "Error", "Critical", "Alert", "Emergency"}

SummaryOps == {"Finish", "partialFinish"}

\* the severity the wrapper named op passes to output
SeverityOf(op) ==
  CASE op = "Debug" -> SevDebug
    [] op = "Info" -> SevInfo
    [] op = "Warning" -> SevWarning
    [] op = "Error" -> SevError
    [] op = "Critical" -> SevCritical
    [] op = "Alert" -> SevAlert
    [] op = "Emergency" -> SevEmergency
    [] OTHER -> Default

IsEmit(c) == c.op \in EmitOps

\* the emit calls among the first n calls, in order
EmitsUpTo(n) == SelectSeq(SubSeq(calls, 1, n), IsEmit)

\* the maximum, under Default < Debug < ... < Emergency, of the severities
\* emitted by the first n calls
MaxEmittedUpTo(n) ==
  SetMaxOf({SeverityOf(calls[j].op) : j \in {k \in 1..n : IsEmit(calls[k])}})

\* how many of the first n calls are Finish or partialFinish
SummariesUpTo(n) == Cardinality({k \in 1..n : calls[k].op \in SummaryOps})

CountOp(op) == Cardinality({k \in 1..Len(calls) : calls[k].op = op})

\* the entries submitted to the parent sink, in order
parentLogs == SelectSeq(parentSink, IsLog)

\* the entry the i-th call, a Finish or partialFinish, submitted
SummaryOfCall(i) == parentLogs[SummariesUpTo(i)].e

(* ------------------------------- C1 ----------------------------------- *)

\* C1: the summary entry every Finish submits to the parent sink has the
\* maximum of the severities emitted before that Finish, under the order
\* Default < Debug < Info < Warning < Error < Critical < Alert < Emergency,
\* and Default when nothing was emitted.
C1_FinishSeverityIsMax ==
  \A i \in 1..Len(calls) :
    calls[i].op = "Finish" =>
      /\ SummariesUpTo(i) <= Len(parentLogs)
      /\ SummaryOfCall(i).Severity = MaxEmittedUpTo(i - 1)

\* Error, then Info, then Finish: the maximum is not the last severity
C1_Witness ==
  /\ Len(calls) = 3
  /\ calls[1].op = "Error"
  /\ calls[2].op = "Info"
  /\ calls[3].op = "Finish"
  /\ SummaryOfCall(3).Severity = SevError

(* ------------------------------- C2 ----------------------------------- *)

Finished == CountOp("Finish") >= 1

\* C2: once a Finish has returned, no later call submits an entry to either
\* sink, flushes, or changes the recorded severities or the end time.
C2_FinishIsTerminal ==
  [][Finished =>
       /\ entrySink' = entrySink
       /\ parentSink' = parentSink
       /\ l'.logSeverities = l.logSeverities
       /\ l'.endTime = l.endTime]_vars

(* ------------------------------- C3 ----------------------------------- *)

\* n emit calls followed by one Finish, and no partialFinish
EmitsThenOneFinish ==
  /\ Len(calls) >= 1
  /\ calls[Len(calls)].op = "Finish"
  /\ CountOp("Finish") = 1
  /\ CountOp("partialFinish") = 0

\* C3: after n emit calls followed by one Finish the entry sink has received
\* exactly the n entries, in call order, each with the payload and severity
\* of its call, and nothing else (no flush, no summary); the parent sink has
\* received exactly one entry and then exactly one flush.
C3_CallOrderSubmission ==
  EmitsThenOneFinish =>
    LET emits == EmitsUpTo(Len(calls))
    IN /\ Len(entrySink) = Len(emits)
       /\ \A k \in 1..Len(emits) :
            /\ IsLog(entrySink[k])
            /\ entrySink[k].e.Payload = emits[k].payload
            /\ entrySink[k].e.Severity = SeverityOf(emits[k].op)
       /\ Len(parentSink) = 2
       /\ IsLog(parentSink[1])
       /\ IsFlush(parentSink[2])

\* Info("p"), Error("q"), Finish
C3_Witness ==
  /\ Len(calls) = 3
  /\ calls[1] = Call("Info", "p")
  /\ calls[2] = Call("Error", "q")
  /\ calls[3].op = "Finish"
  /\ Len(entrySink) = 2

(* ------------------------------- C5 ----------------------------------- *)

\* C5: every entry the aggregator has submitted, to the entry sink by an
\* emit operation and to the parent sink by partialFinish or Finish, carries
\* the trace id of the aggregator, so the entries of a request share a trace.
C5_EntriesCarryTraceID ==
  l.def # 0 =>
    /\ \A k \in 1..Len(entrySink) :
         IsLog(entrySink[k]) =>
           entrySink[k].e.Trace = l.traceID /\ entrySink[k].e.Trace # NoTrace
    /\ \A k \in 1..Len(parentSink) :
         IsLog(parentSink[k]) =>
           parentSink[k].e.Trace = l.traceID /\ parentSink[k].e.Trace # NoTrace

(* ------------------------------- C6 ----------------------------------- *)

\* C6: a Finish whose flush of the parent sink failed returns an error to
\* its caller.
C6_FlushFailureSurfaced ==
  (Len(calls) >= 1 /\ calls[Len(calls)].op = "Finish" /\ flushErr # "nil")
    => ret # "void"

(* ------------------------------- C7 ----------------------------------- *)

\* a step that is a call of partialFinish
partialFinishStep == calls' = Append(calls, Call("partialFinish", NoPayload))

\* C7: every partialFinish call submits exactly one entry to the parent
\* sink, of the maximum severity emitted so far (Default if none), with the
\* request and no latency; it flushes nothing, submits nothing to the entry
\* sink and leaves the aggregator (severities, start and end time) unchanged;
\* and the summary of a Finish is the one the emit calls alone determine,
\* however many partialFinish calls came before it.
C7_PartialFinishFrame ==
  /\ [][partialFinishStep =>
          /\ l.def # 0
          /\ Len(parentSink') = Len(parentSink) + 1
          /\ SubSeq(parentSink', 1, Len(parentSink)) = parentSink
          /\ IsLog(parentSink'[Len(parentSink')])
          /\ parentSink'[Len(parentSink')].e.Severity = MaxEmittedUpTo(Len(calls))
          /\ parentSink'[Len(parentSink')].e.HTTPRequest = HTTPRequest(l.request, 0)
          /\ entrySink' = entrySink
          /\ l' = l]_vars
  /\ [](\A i \in 1..Len(calls) :
          calls[i].op = "Finish" =>
            /\ SummaryOfCall(i).Severity = MaxEmittedUpTo(i - 1)
            /\ SummaryOfCall(i).HTTPRequest.Request = l.request
            /\ (i = Len(calls) =>
                  SummaryOfCall(i).HTTPRequest.Latency = l.endTime - l.startTime))

\* Error, partialFinish, Finish: an interim summary and then the final one
C7_Witness ==
  /\ Len(calls) = 3
  /\ calls[1].op = "Error"
  /\ calls[2].op = "partialFinish"
  /\ calls[3].op = "Finish"
  /\ Len(parentSink) = 3
  /\ parentSink[1].e.Severity = SevError
  /\ parentSink[2].e.Severity = SevError

=============================================================================
